---- MODULE Spec2Model ----
(***************************************************************************)
(* Model of the band-structured phase oscillator engine SpectralOscillator *)
(* (tests/falsify_etm.py) and of the loops that drive it.                  *)
(*                                                                         *)
(* Reals are fixed-point integers:                                         *)
(*   magnitudes, coupling, input energy : multiples of 1/One               *)
(*   sines, cosines, coherence          : multiples of 1/SinOne            *)
(*   phases                             : multiples of 2*pi/TwoPi radians  *)
(*                                        (1/10000 rad to 2 parts in 10^6) *)
(* Every product is divided back with truncation toward zero.              *)
(***************************************************************************)
EXTENDS Integers, Sequences, FiniteSets

(* ------------------------------ bounds -------------------------------- *)

\* arbitrary evolve_step calls explored per engine
MaxCalls == 2
\* length of the runs driven by an input function of the step index
MaxRunSteps == 240
\* the largest precision get_state_hash is called with
MaxPrecision == 8
\* test_F1_reducibility: the largest num_steps
MaxF1Steps == 15
\* test_F2_separability: the largest num_steps and num_trials
MaxF2Steps == 8
MaxF2Trials == 2
\* test_F3_triviality: the largest num_steps and num_k_values
MaxF3Steps == 104
MaxKValues == 3
\* test_F3_triviality_v2: the largest num_trials and num_steps
MaxF3v2Trials == 3
MaxF3v2Steps == 6
\* test_F4_simulation: the longest n_oscillators_range explored besides
\* the default one
MaxRangeLen == 2
\* the calls of a run with large input energies
MaxSurgeSteps == 6
\* the steps of a run without input that outlasts the growth of the coupling
MaxZeroSteps == 720

(* --------------------------- number formats ---------------------------- *)

One == 100000
SinOne == 1000
TwoPi == 62832
QuarterTurn == TwoPi \div 4
HalfTurn == TwoPi \div 2
\* phase units per radian
PerRad == 10000

\* float division rounds symmetrically about zero
TruncDiv(a, b) == IF a < 0 THEN -((-a) \div b) ELSE a \div b

\* float %: the result of x % m lies in [0, m)
Mod(x, m) == x % m

RECURSIVE IsqrtFrom(_, _)
IsqrtFrom(n, x) ==
    LET y == (x + n \div x) \div 2
    IN IF y >= x THEN x ELSE IsqrtFrom(n, y)

\* largest r with r*r <= n
Isqrt(n) == IF n <= 0 THEN 0 ELSE IF n < 4 THEN 1 ELSE IsqrtFrom(n, n \div 2)

(* ------------------------------ np.sin --------------------------------- *)

\* floor(SinOne * sin(k * (pi/2) / SinSegments)), k = 0 .. SinSegments
SinTable ==
    << 0, 35, 71, 106, 142, 177, 212, 247, 281, 315, 349, 382,
       415, 447, 479, 510, 540, 570, 599, 627, 654, 681, 707, 731,
       755, 778, 800, 821, 841, 860, 877, 894, 909, 923, 936, 948,
       959, 968, 977, 984, 989, 994, 997, 999, 1000 >>

SinSegments == Len(SinTable) - 1

SegmentWidth == QuarterTurn \div SinSegments

\* sine on the first quarter turn, by chords of the table (never above the sine)
QuarterSin(y) ==
    LET k == y \div SegmentWidth
        r == y % SegmentWidth
    IN IF k >= SinSegments
          THEN SinTable[SinSegments + 1]
          ELSE SinTable[k + 1] + ((SinTable[k + 2] - SinTable[k + 1]) * r) \div SegmentWidth

Sin(x) ==
    LET y == x % TwoPi
    IN IF y <= QuarterTurn THEN QuarterSin(y)
       ELSE IF y <= HalfTurn THEN QuarterSin(HalfTurn - y)
       ELSE IF y <= HalfTurn + QuarterTurn THEN -QuarterSin(y - HalfTurn)
       ELSE -QuarterSin(TwoPi - y)

Cos(x) == Sin(x + QuarterTurn)

(* ----------------------- numpy's global stream ------------------------- *)

\* the seeds the engines are built and reset with
Seeds == {1, 12345}

\* floor(10000 * random_sample()) for the first outputs of MT19937 after
\* np.random.seed(seed)
MTOutputs(seed) ==
    CASE seed = 0 ->
        << 5488, 7151, 6027, 5448, 4236, 6458, 4375, 8917, 9636, 3834, 7917, 5288,
           5680, 9255, 710, 871, 202, 8326, 7781, 8700, 9786, 7991, 4614, 7805,
           1182, 6399, 1433, 9446, 5218, 4146, 2645, 7742, 4561, 5684, 187, 6176,
           6120, 6169, 9437, 6818, 3595, 4370, 6976, 602, 6667, 6706, 2103, 1289 >>
      [] seed = 1 ->
        << 4170, 7203, 1, 3023, 1467, 923, 1862, 3455, 3967, 5388, 4191, 6852,
           2044, 8781, 273, 6704, 4173, 5586, 1403, 1981, 8007, 9682, 3134, 6923,
           8763, 8946, 850, 390, 1698, 8781, 983, 4211, 9578, 5331, 6918, 3155,
           6865, 8346, 182, 7501, 9888, 7481, 2804, 7892, 1032, 4478, 9085, 2936 >>
      [] seed = 12345 ->
        << 9296, 3163, 1839, 2045, 5677, 5955, 9645, 6531, 7489, 6535, 7477, 9613,
           83, 1064, 2987, 6564, 8098, 8721, 9646, 7236, 6424, 7174, 4675, 3255,
           4396, 7296, 9940, 6768, 7908, 1709, 268, 8003, 9037, 246, 4917, 5262,
           5963, 519, 8950, 7282, 8183, 5002, 8101, 959, 2189, 2587, 4681, 4593 >>
      [] seed = 2 ->
        << 4359, 259, 5496, 4353, 4203, 3303, 2046, 6192, 2996, 2668, 6211, 5291,
           1345, 5135, 1844, 7853 >>
      [] seed = 3 ->
        << 5507, 7081, 2909, 5108, 8929, 8962, 1255, 2072, 514, 4408, 298, 4568,
           6491, 2784, 6762, 5908 >>
      [] seed = 4 ->
        << 9670, 5472, 9726, 7148, 6977, 2160, 9762, 62, 2529, 4347, 7793, 1976,
           8629, 9834, 1638, 5973 >>
      [] seed = 5 ->
        << 2219, 8707, 2067, 9186, 4884, 6117, 7659, 5184, 2968, 1877, 807, 7384,
           4413, 1583, 8799, 2740 >>
      [] seed = 12346 ->
        << 9289, 4491, 2283, 7071, 1919, 8571, 5133, 857, 2595, 4316, 9503, 1242,
           9417, 327, 1202, 7932 >>
      [] seed = 12347 ->
        << 7031, 5377, 2489, 5344, 6317, 5958, 2296, 3432, 2162, 1260, 5693, 4273,
           8369, 5388, 6189, 6520 >>

\* the stream before anything seeded it
Unseeded == [seed |-> 0, pos |-> 0]

\* np.random.seed left out: the stream goes on from where it is
RandomSeedKept(stream, seed) == stream

\* np.random.seed(seed): the stream restarts at its first output
RandomSeed(stream, seed) == [seed |-> seed, pos |-> 0]

\* the k-th next output of the stream (the table is read cyclically past its end)
RandomSample(stream, k) ==
    LET out == MTOutputs(stream.seed)
    IN out[((stream.pos + k) % Len(out)) + 1]

\* the stream after n outputs were drawn
Advance(stream, n) == [stream EXCEPT !.pos = @ + n]

(* --------------------------- SpectralOscillator ------------------------ *)

NumBands == 4
NeuronsPerBand == 4
Bands == 0 .. NumBands - 1
Neurons == 0 .. NeuronsPerBand - 1

\* hundredths
BAND_DECAY == [b \in Bands |-> <<98, 90, 70, 30>>[b + 1]]
\* phase units
BAND_FREQ == [b \in Bands |-> <<1000, 3000, 10000, 30000>>[b + 1]]

COHERENCE_HIGH == 600
COHERENCE_LOW == 250
\* thousandths
COUPLING_DECAY == 995
COUPLING_GROWTH == 1005
COUPLING_MIN == 1000
COUPLING_MAX == 200000

\* the magnitude below which energy is injected, and the one an oscillator
\* must exceed to count in the coherence
InjectBelow == 50000
ValidAbove == 1000

None == <<>>
Some(v) == <<v>>

\* np.random.uniform(0, 2*pi, (num_bands, neurons_per_band)), row by row
UniformPhases(stream) ==
    [b \in Bands |-> [n \in Neurons |->
        (RandomSample(stream, b * NeuronsPerBand + n) * TwoPi) \div PerRad]]

\* __init__ and reset leave the engine in this state
FreshOsc(stream) ==
    [phases |-> UniformPhases(stream),
     magnitudes |-> [b \in Bands |-> [n \in Neurons |-> (9 * One) \div 10]],
     coupling |-> One \div 2]

RECURSIVE SumTo(_, _)
\* f[0] + ... + f[n]
SumTo(f, n) == IF n < 0 THEN 0 ELSE f[n] + SumTo(f, n - 1)

\* the sum of f[b][n] over all oscillators
SumAll(f) == SumTo([b \in Bands |-> SumTo(f[b], NeuronsPerBand - 1)], NumBands - 1)

\* the mask `magnitudes > 0.01` left out
ValidEvery(magnitudes) == [b \in Bands |-> [n \in Neurons |-> TRUE]]

\* valid = magnitudes > 0.01
Valid(magnitudes) ==
    [b \in Bands |-> [n \in Neurons |-> magnitudes[b][n] > ValidAbove]]

\* np.clip left out
ClipNothing(x, lo, hi) == x

Clip(x, lo, hi) == IF x < lo THEN lo ELSE IF x > hi THEN hi ELSE x

\* get_coherence on the given phases and magnitudes: |mean(z[valid])|,
\* z = exp(1j * phases)
Coherence(phases, magnitudes) ==
    LET valid == Valid(magnitudes)
        count == SumAll([b \in Bands |-> [n \in Neurons |->
                     IF valid[b][n] THEN 1 ELSE 0]])
        re == SumAll([b \in Bands |-> [n \in Neurons |->
                     IF valid[b][n] THEN Cos(phases[b][n]) ELSE 0]])
        im == SumAll([b \in Bands |-> [n \in Neurons |->
                     IF valid[b][n] THEN Sin(phases[b][n]) ELSE 0]])
    IN IF count = 0 THEN 0
       ELSE Isqrt(re * re + im * im) \div count

get_coherence(osc) == Coherence(osc.phases, osc.magnitudes)

\* the mask `magnitudes < 0.5` left out
InjectEvery(magnitudes, input_energy) ==
    IF input_energy > 0
       THEN [b \in Bands |-> [n \in Neurons |->
                magnitudes[b][n] + TruncDiv(input_energy, 10)]]
       ELSE magnitudes

\* the factor 0.1 left out
InjectWhole(magnitudes, input_energy) ==
    IF input_energy > 0
       THEN [b \in Bands |-> [n \in Neurons |->
                IF magnitudes[b][n] < InjectBelow
                   THEN magnitudes[b][n] + input_energy
                   ELSE magnitudes[b][n]]]
       ELSE magnitudes

\* if input_energy > 0: magnitudes[magnitudes < 0.5] += 0.1 * input_energy
Inject(magnitudes, input_energy) ==
    IF input_energy > 0
       THEN [b \in Bands |-> [n \in Neurons |->
                IF magnitudes[b][n] < InjectBelow
                   THEN magnitudes[b][n] + TruncDiv(input_energy, 10)
                   ELSE magnitudes[b][n]]]
       ELSE magnitudes

\* `/=` written for `*=`
DecayDivided(magnitudes) ==
    [b \in Bands |-> [n \in Neurons |->
        TruncDiv(magnitudes[b][n] * 100, BAND_DECAY[b])]]

\* the decay table indexed from the wrong end
DecayReversed(magnitudes) ==
    [b \in Bands |-> [n \in Neurons |->
        TruncDiv(magnitudes[b][n] * BAND_DECAY[NumBands - 1 - b], 100)]]

\* magnitudes[b] *= BAND_DECAY[b]
Decay(magnitudes) ==
    [b \in Bands |-> [n \in Neurons |->
        TruncDiv(magnitudes[b][n] * BAND_DECAY[b], 100)]]

\* phases[b] += BAND_FREQ[b] * 0.1
Rotate(phases) ==
    [b \in Bands |-> [n \in Neurons |-> phases[b][n] + BAND_FREQ[b] \div 10]]

\* phases % (2 * pi)
Wrap(phases) == [b \in Bands |-> [n \in Neurons |-> Mod(phases[b][n], TwoPi)]]

\* the (src, dst) pairs in the order the two nested loops visit them
PairOrder ==
    LET all == [i \in 1 .. NumBands * NumBands |->
                   <<(i - 1) \div NumBands, (i - 1) % NumBands>>]
    IN SelectSeq(all, LAMBDA p : p[1] # p[2])

\* np.mean(np.sin(phases[src] - phases[dst]))
PhaseDiff(phases, src, dst) ==
    TruncDiv(SumTo([n \in Neurons |-> Sin(phases[src][n] - phases[dst][n])],
                   NeuronsPerBand - 1),
             NeuronsPerBand)

\* pull = K * phase_diff * 0.1
Pull(phases, K, src, dst) ==
    TruncDiv(K * PhaseDiff(phases, src, dst), (One \div PerRad) * SinOne * 10)

\* np.mean left out: each neuron pulled by its own phase difference
PullPairPerNeuron(phases, K, pair) ==
    [phases EXCEPT ![pair[2]] = [n \in Neurons |->
        @[n] + TruncDiv(K * Sin(phases[pair[1]][n] - phases[pair[2]][n]),
                        (One \div PerRad) * SinOne * 10)]]

\* one pass of the loop body: phases[dst] += pull, the pull read from the
\* phases as they are now
PullPair(phases, K, pair) ==
    LET pull == Pull(phases, K, pair[1], pair[2])
    IN [phases EXCEPT ![pair[2]] = [n \in Neurons |-> @[n] + pull]]

RECURSIVE PullPairs(_, _, _, _)
PullPairs(phases, K, order, i) ==
    IF i > Len(order) THEN phases
    ELSE PullPairs(PullPair(phases, K, order[i]), K, order, i + 1)

\* the second `phases % (2 * pi)` left out
CoupleUnwrapped(phases, K, order) ==
    IF K >= COUPLING_MIN THEN PullPairs(phases, K, order, 1) ELSE phases

\* the cross-band coupling of evolve_step, pairs taken in the given order
Couple(phases, K, order) ==
    IF K >= COUPLING_MIN
       THEN Wrap(PullPairs(phases, K, order, 1))
       ELSE phases

\* K = fixed_coupling if fixed_coupling is not None else self.coupling
EffectiveK(osc, fixed_coupling) ==
    IF fixed_coupling # None THEN fixed_coupling[1] ELSE osc.coupling

\* the growth added instead of multiplied: coupling += 0.005
FeedbackGrowthAdded(coupling, coherence) ==
    LET k == IF coherence > COHERENCE_HIGH
                THEN TruncDiv(coupling * COUPLING_DECAY, 1000)
             ELSE IF coherence < COHERENCE_LOW
                THEN coupling + TruncDiv((COUPLING_GROWTH - 1000) * One, 1000)
             ELSE coupling
    IN Clip(k, COUPLING_MIN, COUPLING_MAX)

\* the coupling feedback of evolve_step
Feedback(coupling, coherence) ==
    LET k == IF coherence > COHERENCE_HIGH
                THEN TruncDiv(coupling * COUPLING_DECAY, 1000)
             ELSE IF coherence < COHERENCE_LOW
                THEN TruncDiv(coupling * COUPLING_GROWTH, 1000)
             ELSE coupling
    IN Clip(k, COUPLING_MIN, COUPLING_MAX)

\* the coherence read before the step instead of after it
NextCouplingStale(osc, phases, magnitudes, use_feedback, fixed_coupling) ==
    IF use_feedback THEN Feedback(osc.coupling, Coherence(osc.phases, osc.magnitudes))
    ELSE IF fixed_coupling # None THEN fixed_coupling[1]
    ELSE osc.coupling

\* use_feedback ignored: the coherence rule always applied
NextCouplingAlways(osc, phases, magnitudes, use_feedback, fixed_coupling) ==
    Feedback(osc.coupling, Coherence(phases, magnitudes))

\* the coupling evolve_step leaves, given the phases and magnitudes it leaves
NextCoupling(osc, phases, magnitudes, use_feedback, fixed_coupling) ==
    IF use_feedback THEN Feedback(osc.coupling, Coherence(phases, magnitudes))
    ELSE IF fixed_coupling # None THEN fixed_coupling[1]
    ELSE osc.coupling

\* the injection mask taken from the phases: mask = self.phases < 0.5
evolve_step_phase_mask(osc, input_energy, use_feedback, fixed_coupling) ==
    LET injected == [b \in Bands |-> [n \in Neurons |->
                        IF input_energy > 0 /\ osc.phases[b][n] < PerRad \div 2
                           THEN osc.magnitudes[b][n] + TruncDiv(input_energy, 10)
                           ELSE osc.magnitudes[b][n]]]
        magnitudes == Decay(injected)
        rotated == Wrap(Rotate(osc.phases))
        phases == Couple(rotated, EffectiveK(osc, fixed_coupling), PairOrder)
    IN [phases |-> phases,
        magnitudes |-> magnitudes,
        coupling |-> NextCoupling(osc, phases, magnitudes, use_feedback, fixed_coupling)]

evolve_step(osc, input_energy, use_feedback, fixed_coupling) ==
    LET magnitudes == Decay(Inject(osc.magnitudes, input_energy))
        rotated == Wrap(Rotate(osc.phases))
        phases == Couple(rotated, EffectiveK(osc, fixed_coupling), PairOrder)
    IN [phases |-> phases,
        magnitudes |-> magnitudes,
        coupling |-> NextCoupling(osc, phases, magnitudes, use_feedback, fixed_coupling)]

RECURSIVE Pow2(_)
\* 2**p
Pow2(p) == IF p = 0 THEN 1 ELSE 2 * Pow2(p - 1)

\* array.flatten(), as a tuple
Flatten(f) ==
    [i \in 1 .. NumBands * NeuronsPerBand |->
        f[(i - 1) \div NeuronsPerBand][(i - 1) % NeuronsPerBand]]

\* get_state_hash(precision): the quantized phases, the quantized
\* magnitudes and the quantized coupling
get_state_hash(osc, precision) ==
    LET bins == Pow2(precision)
        phase_quantized ==
            [b \in Bands |-> [n \in Neurons |->
                Mod(TruncDiv(osc.phases[b][n] * bins, TwoPi), bins)]]
        mag_quantized ==
            [b \in Bands |-> [n \in Neurons |->
                Clip(TruncDiv(osc.magnitudes[b][n] * bins, One), 0, bins - 1)]]
        coupling_quantized == TruncDiv(osc.coupling * bins, One)
    IN << Flatten(phase_quantized), Flatten(mag_quantized), coupling_quantized >>

\* the phases overwritten by their bin's angle while they are quantized
AfterStateHashInPlace(osc, precision) ==
    [osc EXCEPT !.phases =
        [b \in Bands |-> [n \in Neurons |->
            TruncDiv(TruncDiv(osc.phases[b][n] * Pow2(precision), TwoPi) * TwoPi,
                     Pow2(precision))]]]

\* the engine as get_state_hash leaves it: every array it computes is a
\* new one
AfterStateHash(osc, precision) == osc

\* the engine as get_coherence leaves it
AfterCoherence(osc) == osc

(* ------------------------------ the state ------------------------------ *)

VARIABLES
    \* numpy's global random stream: the seed it was last given and the
    \* number of outputs drawn since
    rng,
    \* the engines constructed so far, in order of construction
    oscs,
    \* per engine: the seed it was last built or reset with and the
    \* evolve_step calls it has received since
    hist,
    \* the last operation: its name, the engine it acted on, whether it
    \* raised, and the engine's state before it (for __init__ and reset,
    \* which read nothing of the engine, the state they made)
    lastOp,
    \* what drives the engines: "calls" (arbitrary calls on one engine),
    \* "pair" (arbitrary calls on two engines), the name of a script, or
    \* "test" (one of the falsification tests)
    driver,
    \* the local variables of the falsification test being run, NoTest when
    \* none is
    test

vars == <<rng, oscs, hist, lastOp, driver, test>>

NoTest == [name |-> "none"]

TotalOscillators == NumBands * NeuronsPerBand

\* the phases drawn before the stream is seeded
ConstructDrawFirst(stream, seed) ==
    [osc |-> FreshOsc(stream),
     stream |-> RandomSeed(Advance(stream, TotalOscillators), seed)]

\* SpectralOscillator(seed=seed): seeds the global stream, then draws
Construct(stream, seed) ==
    LET seeded == RandomSeed(stream, seed)
    IN [osc |-> FreshOsc(seeded), stream |-> Advance(seeded, TotalOscillators)]

Call(input_energy, use_feedback, fixed_coupling) ==
    [input_energy |-> input_energy,
     use_feedback |-> use_feedback,
     fixed_coupling |-> fixed_coupling]

\* the arguments explored by arbitrary calls
InputEnergies == {-(3 * One) \div 10, 0, 4 * One}
FixedCouplings == {None, Some(COUPLING_MIN), Some(COUPLING_MAX)}
OutOfRangeCouplings == {Some(COUPLING_MIN \div 2), Some(COUPLING_MAX + One)}

Calls(fixed) ==
    {Call(e, fb, fc) : e \in InputEnergies, fb \in BOOLEAN, fc \in fixed}

PairCalls ==
    {Call(4 * One, TRUE, None),
     Call(0, FALSE, Some(COUPLING_MAX)),
     Call(-(3 * One) \div 10, TRUE, Some(COUPLING_MIN))}

\* 0.3 * np.sin(step * 0.1)
SineInput(step) == TruncDiv(3 * (One \div 10) * Sin(step * (PerRad \div 10)), SinOne)

\* sequences of evolve_step calls, by the call made at each step index, as
\* made by a loop `for step in range(num_steps): osc.evolve_step(...)`:
\*   zero        no input, feedback
\*   burst       input 4.0 for 10 steps, then none, feedback
\*   sine        input 0.3 * sin(0.1 * step), feedback
\*   sine_open   the same input, no feedback, no fixed coupling
\*   sine_fixed  the same input, no feedback, coupling fixed at 1.0
\*   floor       coupling forced to 0.01 by the first call, then as zero
\*   ceiling     coupling forced to 2.0 by the first call, then as zero
Scripts == {"zero", "burst", "sine", "sine_open", "sine_fixed", "floor", "ceiling"}

ScriptCall(name, step) ==
    CASE name = "zero" -> Call(0, TRUE, None)
      [] name = "burst" -> Call(IF step < 10 THEN 4 * One ELSE 0, TRUE, None)
      [] name = "sine" -> Call(SineInput(step), TRUE, None)
      [] name = "sine_open" -> Call(SineInput(step), FALSE, None)
      [] name = "sine_fixed" -> Call(SineInput(step), FALSE, Some(One))
      [] name = "floor" ->
            IF step = 0 THEN Call(0, FALSE, Some(COUPLING_MIN)) ELSE Call(0, TRUE, None)
      [] name = "ceiling" ->
            IF step = 0 THEN Call(0, FALSE, Some(COUPLING_MAX)) ELSE Call(0, TRUE, None)

InitWith(drivers) ==
    \E seed \in Seeds, d \in drivers :
        LET made == Construct(Unseeded, seed)
        IN /\ rng = made.stream
           /\ oscs = <<made.osc>>
           /\ hist = <<[seed |-> seed, calls |-> <<>>]>>
           /\ lastOp = [op |-> "__init__", osc |-> 1, pre |-> made.osc, raised |-> FALSE]
           /\ driver = d
           /\ test = NoTest

Init == InitWith({"calls"} \cup Scripts)

\* osc.evolve_step(...) on engine e; nothing in evolve_step raises
StepOsc(e, c) ==
    /\ oscs' = [oscs EXCEPT ![e] =
                   evolve_step(@, c.input_energy, c.use_feedback, c.fixed_coupling)]
    /\ hist' = [hist EXCEPT ![e].calls = Append(@, c)]
    /\ lastOp' = [op |-> "evolve_step", osc |-> e, pre |-> oscs[e], raised |-> FALSE]
    /\ UNCHANGED rng

\* the same, called from outside the falsification tests
Step(e, c) == StepOsc(e, c) /\ UNCHANGED <<driver, test>>

\* an evolve_step call with any arguments, fixed_coupling from the given set
EvolveStep(fixed) ==
    \E c \in Calls(fixed) :
        /\ driver = "calls"
        /\ Len(hist[1].calls) < MaxCalls
        /\ Step(1, c)

\* osc.reset(seed)
Reset ==
    \E seed \in Seeds :
        LET made == Construct(rng, seed)
        IN /\ driver = "calls"
           /\ rng' = made.stream
           /\ oscs' = [oscs EXCEPT ![1] = made.osc]
           /\ hist' = [hist EXCEPT ![1] = [seed |-> seed, calls |-> <<>>]]
           /\ lastOp' = [op |-> "reset", osc |-> 1, pre |-> made.osc, raised |-> FALSE]
           /\ UNCHANGED <<driver, test>>

\* one pass of a scripted loop
RunStep ==
    /\ driver \in Scripts
    /\ Len(hist[1].calls) < MaxRunSteps
    /\ Step(1, ScriptCall(driver, Len(hist[1].calls)))

Next == EvolveStep(FixedCouplings) \/ Reset \/ RunStep

Spec == Init /\ [][Next]_vars

\* the same, fixed_coupling also taken outside [0.01, 2.0]
NextAnyArgs == EvolveStep(FixedCouplings \cup OutOfRangeCouplings) \/ Reset \/ RunStep

SpecAnyArgs == Init /\ [][NextAnyArgs]_vars

\* input energies below, above and far above the 4.0 of the burst
SurgeEnergies == {-(3 * One) \div 10, 6 * One, 10 * One}

\* osc.evolve_step(input_energy) with any of them
SurgeStep ==
    \E e \in SurgeEnergies :
        /\ driver = "surge"
        /\ Len(hist[1].calls) < MaxSurgeSteps
        /\ Step(1, Call(e, TRUE, None))

SpecSurge == InitWith({"surge"}) /\ [][SurgeStep]_vars

\* osc.evolve_step(input_energy=0, use_feedback=True), again and again
ZeroStep ==
    /\ driver = "forever"
    /\ Len(hist[1].calls) < MaxZeroSteps
    /\ Step(1, Call(0, TRUE, None))

\* the loop never stops calling: weak fairness of ZeroStep, its enabling
\* condition written out as its guard (every ZeroStep lengthens hist, so it
\* is enabled exactly when fewer than MaxZeroSteps calls were made)
SpecForever ==
    /\ InitWith({"forever"})
    /\ [][ZeroStep]_vars
    /\ \/ []<>(Len(hist[1].calls) >= MaxZeroSteps)
       \/ []<><<ZeroStep>>_vars

\* the precisions get_state_hash is called with between the calls
QueryPrecisions == {1, MaxPrecision}

\* whether the last operation was this same read
Repeats(op, precision) ==
    /\ lastOp.op = op
    /\ lastOp.precision = precision

\* what a read records: its result and, for a read that repeats the last
\* operation, the result of that one
Read(op, precision, result) ==
    [op |-> op, osc |-> 1, pre |-> oscs[1], raised |-> FALSE,
     precision |-> precision, result |-> result,
     repeated |-> Repeats(op, precision),
     previous |-> IF Repeats(op, precision) THEN lastOp.result ELSE result]

\* osc.get_coherence()
GetCoherence ==
    /\ driver = "calls"
    /\ oscs' = [oscs EXCEPT ![1] = AfterCoherence(@)]
    /\ lastOp' = Read("get_coherence", 0, get_coherence(oscs[1]))
    /\ UNCHANGED <<rng, hist, driver, test>>

\* osc.get_state_hash(precision)
GetStateHash ==
    \E precision \in QueryPrecisions :
        /\ driver = "calls"
        /\ oscs' = [oscs EXCEPT ![1] = AfterStateHash(@, precision)]
        /\ lastOp' = Read("get_state_hash", precision,
                          get_state_hash(oscs[1], precision))
        /\ UNCHANGED <<rng, hist, driver, test>>

\* arbitrary calls on one engine, its coupling left to it, with reads
\* between them
QueriesNext == EvolveStep({None}) \/ Reset \/ GetCoherence \/ GetStateHash

SpecQueries == InitWith({"calls"}) /\ [][QueriesNext]_vars

\* a second engine is constructed while the first is in use
ConstructSecond ==
    \E seed \in Seeds :
        LET made == Construct(rng, seed)
        IN /\ driver = "pair"
           /\ Len(oscs) = 1
           /\ rng' = made.stream
           /\ oscs' = Append(oscs, made.osc)
           /\ hist' = Append(hist, [seed |-> seed, calls |-> <<>>])
           /\ lastOp' = [op |-> "__init__", osc |-> 2, pre |-> made.osc, raised |-> FALSE]
           /\ UNCHANGED <<driver, test>>

PairStep ==
    \E e \in DOMAIN oscs, c \in PairCalls :
        /\ driver = "pair"
        /\ Len(hist[e].calls) < MaxCalls
        /\ Step(e, c)

PairInit == InitWith({"pair"})

PairNext == ConstructSecond \/ PairStep

SpecPair == PairInit /\ [][PairNext]_vars

\* osc.reset(seed) on either engine
PairReset ==
    \E e \in DOMAIN oscs, seed \in Seeds :
        LET made == Construct(rng, seed)
        IN /\ driver = "pair"
           /\ rng' = made.stream
           /\ oscs' = [oscs EXCEPT ![e] = made.osc]
           /\ hist' = [hist EXCEPT ![e] = [seed |-> seed, calls |-> <<>>]]
           /\ lastOp' = [op |-> "reset", osc |-> e, pre |-> made.osc, raised |-> FALSE]
           /\ UNCHANGED <<driver, test>>

\* two engines constructed, stepped and reset in any order
EnginesNext == ConstructSecond \/ PairStep \/ PairReset

SpecEngines == PairInit /\ [][EnginesNext]_vars

(* ------------------------ test_F1_reducibility ------------------------- *)

\* inputs = [0.0, 0.1, 0.3, 0.5, 1.0]
F1Inputs == << 0, One \div 10, (3 * One) \div 10, One \div 2, One >>

\* the precision_bits the test is run with
F1Precisions == {1, MaxPrecision}

\* the seed of SpectralOscillator() and of osc.reset()
DefaultSeed == 12345

\* range(num_steps // len(inputs))
F1StepsPerInput(num_steps) == num_steps \div Len(F1Inputs)

\* transitions[state] = next_state whether or not state is a key already
F1StoreLast(transitions, state, next_state) ==
    [k \in DOMAIN transitions \cup {state} |->
        IF k = state THEN next_state ELSE transitions[k]]

\* the map keyed by the state reached instead of the state left
F1StoreByNext(transitions, state, next_state) ==
    IF next_state \in DOMAIN transitions
       THEN transitions
       ELSE [k \in DOMAIN transitions \cup {next_state} |->
                IF k = next_state THEN state ELSE transitions[k]]

\* if state in transitions: pass (whatever next_state is)
\* else: transitions[state] = next_state
F1Store(transitions, state, next_state) ==
    IF state \in DOMAIN transitions
       THEN transitions
       ELSE [k \in DOMAIN transitions \cup {state} |->
                IF k = state THEN next_state ELSE transitions[k]]

\* an empty run not counted as a lookup table
F1VerdictNonEmpty(n_unique, n_transitions, polynomial_bound) ==
    n_unique > 0 /\ n_unique < polynomial_bound /\ n_transitions = n_unique

\* falsified = n_unique < polynomial_bound and n_transitions == n_unique
F1Verdict(n_unique, n_transitions, polynomial_bound) ==
    n_unique < polynomial_bound /\ n_transitions = n_unique

\* the result record of test_F1_reducibility (coverage, a ratio to
\* (2**precision_bits) ** 33, is left out)
F1Result(t) ==
    LET n_oscillators == TotalOscillators
        n_unique == Cardinality(t.states_visited)
        n_transitions == Cardinality(DOMAIN t.transitions)
        polynomial_bound ==
            n_oscillators * n_oscillators * n_oscillators * Pow2(t.precision_bits)
    IN [falsified |-> F1Verdict(n_unique, n_transitions, polynomial_bound),
        unique_states |-> n_unique,
        transitions |-> n_transitions,
        polynomial_bound |-> polynomial_bound]

F1Init ==
    \E num_steps \in 0 .. MaxF1Steps, precision_bits \in F1Precisions :
        LET made == Construct(Unseeded, DefaultSeed)
        IN /\ rng = made.stream
           /\ oscs = <<made.osc>>
           /\ hist = <<[seed |-> DefaultSeed, calls |-> <<>>]>>
           /\ lastOp = [op |-> "__init__", osc |-> 1, pre |-> made.osc, raised |-> FALSE]
           /\ driver = "test"
           /\ test = [name |-> "F1", num_steps |-> num_steps,
                      precision_bits |-> precision_bits,
                      pc |-> "run", input |-> 0, step |-> 0,
                      states_visited |-> {}, transitions |-> <<>>,
                      state |-> None, next_state |-> None, result |-> None]

\* `for input_energy in inputs: osc.reset()`: the next input level begins
F1Reset ==
    LET made == Construct(rng, DefaultSeed)
    IN /\ test.name = "F1"
       /\ test.pc = "run"
       /\ test.input < Len(F1Inputs)
       /\ test.input = 0 \/ test.step = F1StepsPerInput(test.num_steps)
       /\ rng' = made.stream
       /\ oscs' = <<made.osc>>
       /\ hist' = <<[seed |-> DefaultSeed, calls |-> <<>>]>>
       /\ lastOp' = [op |-> "reset", osc |-> 1, pre |-> made.osc, raised |-> FALSE]
       /\ test' = [test EXCEPT !.input = @ + 1, !.step = 0]
       /\ UNCHANGED driver

\* one pass of the inner loop
F1Step ==
    LET state == get_state_hash(oscs[1], test.precision_bits)
        next_state == get_state_hash(oscs'[1], test.precision_bits)
    IN /\ test.name = "F1"
       /\ test.pc = "run"
       /\ test.input >= 1
       /\ test.step < F1StepsPerInput(test.num_steps)
       /\ StepOsc(1, Call(F1Inputs[test.input], TRUE, None))
       /\ test' = [test EXCEPT
                      !.step = @ + 1,
                      !.states_visited = @ \cup {state},
                      !.transitions = F1Store(@, state, next_state),
                      !.state = Some(state),
                      !.next_state = Some(next_state)]
       /\ UNCHANGED driver

\* the loops are over: the analysis and the return
F1Analyse ==
    /\ test.name = "F1"
    /\ test.pc = "run"
    /\ test.input = Len(F1Inputs)
    /\ test.step = F1StepsPerInput(test.num_steps)
    /\ test' = [test EXCEPT !.pc = "done", !.result = Some(F1Result(test))]
    /\ UNCHANGED <<rng, oscs, hist, lastOp, driver>>

F1Next == F1Reset \/ F1Step \/ F1Analyse

SpecF1 == F1Init /\ [][F1Next]_vars

(* ------------------------ test_F2_separability ------------------------- *)

\* np.mean of a non-empty list
RECURSIVE SumBetween(_, _, _)
\* xs[lo] + ... + xs[hi], summed by halves
SumBetween(xs, lo, hi) ==
    IF lo > hi THEN 0
    ELSE IF lo = hi THEN xs[lo]
    ELSE LET mid == (lo + hi) \div 2
         IN SumBetween(xs, lo, mid) + SumBetween(xs, mid + 1, hi)

\* xs[1] + ... + xs[n]
SumSeq(xs, n) == SumBetween(xs, 1, n)
Mean(xs) == TruncDiv(SumSeq(xs, Len(xs)), Len(xs))

Abs(x) == IF x < 0 THEN -x ELSE x

\* seed = 12345 + trial
F2Seed(trial) == 12345 + trial

\* the record kept the engine's own phase array instead of a copy of it
RecordAliased(osc) ==
    [coherence |-> get_coherence(osc),
     coupling |-> osc.coupling,
     phases |-> osc.phases,
     shares |-> TRUE]

\* the record appended after a step; "phases" is osc.phases.copy(), an
\* array the record shares with nothing
Record(osc) ==
    [coherence |-> get_coherence(osc),
     coupling |-> osc.coupling,
     phases |-> osc.phases,
     shares |-> FALSE]

\* what an evolve_step call does to the records already appended: its
\* `self.phases[b] += ...` writes into the array self.phases names when it
\* is called, before `self.phases = self.phases % (2 * np.pi)` makes a new
\* one, so a record that shares that array sees the write
WrittenInPlace(trajectory) ==
    [i \in DOMAIN trajectory |->
        IF trajectory[i].shares /\ i = Len(trajectory)
           THEN [trajectory[i] EXCEPT !.phases = Rotate(@), !.shares = FALSE]
           ELSE trajectory[i]]

\* the coherence the separated run's rule is applied to: the one measured
\* after the step before, the current one taken instead
RuleCoherenceCurrent(t, osc) == get_coherence(osc)

\* the coherence the separated run's rule is applied to
RuleCoherence(t, osc) == t.prev_coherence

\* the rule the separated run applies to the coupling after evolve_step
SeparatedCoupling(coupling, coherence) ==
    LET k == IF coherence > COHERENCE_HIGH
                THEN TruncDiv(coupling * COUPLING_DECAY, 1000)
             ELSE IF coherence < COHERENCE_LOW
                THEN TruncDiv(coupling * COUPLING_GROWTH, 1000)
             ELSE coupling
    IN Clip(k, COUPLING_MIN, COUPLING_MAX)

\* the locals of test_F2_separability at the start of a trial
F2Trial(num_steps, num_trials, trial, differences) ==
    [name |-> "F2", num_steps |-> num_steps, num_trials |-> num_trials,
     trial |-> trial, pc |-> "coupled",
     coupled_trajectory |-> <<>>, separated_trajectory |-> <<>>,
     prev_coherence |-> 0, differences |-> differences, result |-> None]

\* the engine of the coupled run of the given trial
F2Coupled(stream, trial) == Construct(stream, F2Seed(trial))

F2Init ==
    \E num_steps \in 1 .. MaxF2Steps, num_trials \in 1 .. MaxF2Trials :
        LET made == F2Coupled(Unseeded, 0)
        IN /\ rng = made.stream
           /\ oscs = <<made.osc>>
           /\ hist = <<[seed |-> F2Seed(0), calls |-> <<>>]>>
           /\ lastOp = [op |-> "__init__", osc |-> 1, pre |-> made.osc, raised |-> FALSE]
           /\ driver = "test"
           /\ test = F2Trial(num_steps, num_trials, 0, <<>>)

\* one pass of the coupled loop
F2CoupledStep ==
    /\ test.name = "F2"
    /\ test.pc = "coupled"
    /\ Len(test.coupled_trajectory) < test.num_steps
    /\ StepOsc(1, Call(SineInput(Len(test.coupled_trajectory)), TRUE, None))
    /\ test' = [test EXCEPT !.coupled_trajectory =
                    Append(WrittenInPlace(@), Record(oscs'[1]))]
    /\ UNCHANGED driver

\* the coupled loop is over: osc_separated is constructed
F2Separate ==
    LET made == Construct(rng, F2Seed(test.trial))
    IN /\ test.name = "F2"
       /\ test.pc = "coupled"
       /\ Len(test.coupled_trajectory) = test.num_steps
       /\ rng' = made.stream
       /\ oscs' = Append(oscs, made.osc)
       /\ hist' = Append(hist, [seed |-> F2Seed(test.trial), calls |-> <<>>])
       /\ lastOp' = [op |-> "__init__", osc |-> 2, pre |-> made.osc, raised |-> FALSE]
       /\ test' = [test EXCEPT !.pc = "separated",
                                !.prev_coherence = get_coherence(made.osc)]
       /\ UNCHANGED driver

\* the separated loop: osc_separated.evolve_step(..., use_feedback=False)
F2SeparatedEvolve ==
    /\ test.name = "F2"
    /\ test.pc = "separated"
    /\ Len(test.separated_trajectory) < test.num_steps
    /\ StepOsc(2, Call(SineInput(Len(test.separated_trajectory)), FALSE, None))
    /\ test' = [test EXCEPT !.pc = "feedback",
                    !.separated_trajectory = WrittenInPlace(@)]
    /\ UNCHANGED driver

\* the separated loop: the rest of the pass
F2SeparatedFeedback ==
    LET coupling == SeparatedCoupling(oscs[2].coupling, RuleCoherence(test, oscs[2]))
        osc == [oscs[2] EXCEPT !.coupling = coupling]
    IN /\ test.name = "F2"
       /\ test.pc = "feedback"
       /\ oscs' = [oscs EXCEPT ![2] = osc]
       /\ lastOp' = [op |-> "feedback", osc |-> 2, pre |-> oscs[2], raised |-> FALSE]
       /\ test' = [test EXCEPT !.pc = "separated",
                                !.separated_trajectory = Append(@, Record(osc)),
                                !.prev_coherence = get_coherence(osc)]
       /\ UNCHANGED <<rng, hist, driver>>

\* np.mean of |c[field] - s[field]| over the zipped trajectories
MeanDiff(coupled, separated, field) ==
    Mean([i \in DOMAIN coupled |-> Abs(coupled[i][field] - separated[i][field])])

\* threshold = 0.01, of a coherence and of a coupling
F2CoherenceThreshold == SinOne \div 100
F2CouplingThreshold == One \div 100

\* the result record of test_F2_separability
F2Result(differences) ==
    LET avg_coherence_diff ==
            Mean([i \in DOMAIN differences |-> differences[i].coherence_diff])
        avg_coupling_diff ==
            Mean([i \in DOMAIN differences |-> differences[i].coupling_diff])
    IN [falsified |-> /\ avg_coherence_diff < F2CoherenceThreshold
                      /\ avg_coupling_diff < F2CouplingThreshold,
        avg_coherence_diff |-> avg_coherence_diff,
        avg_coupling_diff |-> avg_coupling_diff]

\* the trajectories are compared; the next trial begins or the test returns
F2Compare ==
    LET differences ==
            Append(test.differences,
                   [coherence_diff |-> MeanDiff(test.coupled_trajectory,
                                                test.separated_trajectory, "coherence"),
                    coupling_diff |-> MeanDiff(test.coupled_trajectory,
                                               test.separated_trajectory, "coupling")])
        made == F2Coupled(rng, test.trial + 1)
    IN /\ test.name = "F2"
       /\ test.pc = "separated"
       /\ Len(test.separated_trajectory) = test.num_steps
       /\ IF test.trial + 1 < test.num_trials
             THEN /\ rng' = made.stream
                  /\ oscs' = <<made.osc>>
                  /\ hist' = <<[seed |-> F2Seed(test.trial + 1), calls |-> <<>>]>>
                  /\ lastOp' = [op |-> "__init__", osc |-> 1, pre |-> made.osc,
                                raised |-> FALSE]
                  /\ test' = F2Trial(test.num_steps, test.num_trials,
                                     test.trial + 1, differences)
             ELSE /\ test' = [test EXCEPT !.pc = "done",
                                          !.differences = differences,
                                          !.result = Some(F2Result(differences))]
                  /\ UNCHANGED <<rng, oscs, hist, lastOp>>
       /\ UNCHANGED driver

F2Next ==
    \/ F2CoupledStep
    \/ F2Separate
    \/ F2SeparatedEvolve
    \/ F2SeparatedFeedback
    \/ F2Compare

SpecF2 == F2Init /\ [][F2Next]_vars

(* ------------------------- test_F3_triviality -------------------------- *)

\* np.linspace(0.01, 2.0, num_k_values)[i - 1]
Linspace(i, num_k_values) ==
    IF num_k_values = 1 THEN One \div 100
    ELSE One \div 100 + ((i - 1) * (2 * One - One \div 100)) \div (num_k_values - 1)

\* xs[-100:]
TrailingWindow == 100
Trailing(xs) ==
    IF Len(xs) <= TrailingWindow THEN xs
    ELSE SubSeq(xs, Len(xs) - TrailingWindow + 1, Len(xs))

\* np.std of a non-empty list
Std(xs) ==
    LET mean == Mean(xs)
    IN Isqrt(Mean([i \in DOMAIN xs |-> (xs[i] - mean) * (xs[i] - mean)]))

\* the metrics run_and_score returns, the score in thousandths:
\*   coherence_stability = 1.0 / (np.std(coherences[-100:]) + 0.01)
\*   coherence_quality = 1.0 - abs(final_coherence - 0.5) * 2
\*   score = coherence_quality * coherence_stability
Score(coherences, couplings) ==
    LET final_coherence == Mean(Trailing(coherences))
        deviation == Std(Trailing(coherences))
        quality == SinOne - Abs(final_coherence - SinOne \div 2) * 2
    IN [final_coherence |-> final_coherence,
        quality |-> quality,
        score |-> TruncDiv(quality * SinOne, deviation + SinOne \div 100),
        final_coupling |-> couplings[Len(couplings)]]

\* the lowest score kept instead of the highest
BetterLower(result, best) == best = None \/ result.score < best[1].score

\* best_constant_result is None or result["score"] > best_constant_result["score"]
Better(result, best) == best = None \/ result.score > best[1].score

\* score_ratio in hundredths; None where the division by a zero score
\* gives inf or nan
ScoreRatio(best_score, dynamic_score) ==
    IF dynamic_score = 0 THEN None
    ELSE Some(TruncDiv(best_score * 100, dynamic_score))

\* the num_steps the test is run with
F3StepCounts == {1, 2, 3, MaxF3Steps}

\* the arguments of the evolve_step calls of the current run_and_score
F3Call(t, step) ==
    IF t.run = 0 THEN Call(SineInput(step), TRUE, None)
    ELSE Call(SineInput(step), FALSE, Some(Linspace(t.run, t.num_k_values)))

F3Init ==
    \E num_steps \in F3StepCounts, num_k_values \in 1 .. MaxKValues :
        LET made == Construct(Unseeded, DefaultSeed)
        IN /\ rng = made.stream
           /\ oscs = <<made.osc>>
           /\ hist = <<[seed |-> DefaultSeed, calls |-> <<>>]>>
           /\ lastOp = [op |-> "__init__", osc |-> 1, pre |-> made.osc, raised |-> FALSE]
           /\ driver = "test"
           /\ test = [name |-> "F3", num_steps |-> num_steps,
                      num_k_values |-> num_k_values,
                      pc |-> "run", run |-> 0,
                      coherences |-> <<>>, couplings |-> <<>>,
                      dynamic_result |-> None,
                      all_constant_results |-> <<>>,
                      best_constant_result |-> None, best_constant_k |-> None,
                      result |-> None]

\* one pass of the loop of run_and_score
F3RunStep ==
    /\ test.name = "F3"
    /\ test.pc = "run"
    /\ Len(test.coherences) < test.num_steps
    /\ StepOsc(1, F3Call(test, Len(test.coherences)))
    /\ test' = [test EXCEPT
                   !.coherences = Append(@, get_coherence(oscs'[1])),
                   !.couplings = Append(@, oscs'[1].coupling)]
    /\ UNCHANGED driver

\* run_and_score returns; its result is kept as the dynamic result or
\* compared with the best constant result so far; the engine of the next
\* grid point, if there is one, is constructed
F3Score ==
    LET scored == Score(test.coherences, test.couplings)
        k == Linspace(test.run, test.num_k_values)
        result == [final_coherence |-> scored.final_coherence,
                   quality |-> scored.quality,
                   score |-> scored.score,
                   final_coupling |-> scored.final_coupling,
                   k |-> k]
        better == Better(result, test.best_constant_result)
        kept == IF test.run = 0
                   THEN [test EXCEPT !.dynamic_result = Some(scored)]
                   ELSE [test EXCEPT
                           !.all_constant_results = Append(@, result),
                           !.best_constant_result = IF better THEN Some(result) ELSE @,
                           !.best_constant_k = IF better THEN Some(k) ELSE @]
        made == Construct(rng, DefaultSeed)
    IN /\ test.name = "F3"
       /\ test.pc = "run"
       /\ Len(test.coherences) = test.num_steps
       /\ IF test.run < test.num_k_values
             THEN /\ rng' = made.stream
                  /\ oscs' = <<made.osc>>
                  /\ hist' = <<[seed |-> DefaultSeed, calls |-> <<>>]>>
                  /\ lastOp' = [op |-> "__init__", osc |-> 1, pre |-> made.osc,
                                raised |-> FALSE]
                  /\ test' = [kept EXCEPT !.run = @ + 1,
                                          !.coherences = <<>>, !.couplings = <<>>]
             ELSE /\ test' = [kept EXCEPT !.pc = "compare"]
                  /\ UNCHANGED <<rng, oscs, hist, lastOp>>
       /\ UNCHANGED driver

\* the result record of test_F3_triviality; falsified = score_ratio >= 0.95
\* (inf >= 0.95 holds, nan >= 0.95 does not)
F3Result(t) ==
    LET best_score == t.best_constant_result[1].score
        dynamic_score == t.dynamic_result[1].score
        score_ratio == ScoreRatio(best_score, dynamic_score)
    IN [falsified |-> IF score_ratio = None THEN best_score > 0
                      ELSE score_ratio[1] >= 95,
        dynamic_score |-> dynamic_score,
        best_constant_score |-> best_score,
        best_constant_k |-> t.best_constant_k[1],
        score_ratio |-> score_ratio]

\* the comparison and the return
F3Compare ==
    /\ test.name = "F3"
    /\ test.pc = "compare"
    /\ test' = [test EXCEPT !.pc = "done", !.result = Some(F3Result(test))]
    /\ UNCHANGED <<rng, oscs, hist, lastOp, driver>>

F3Next == F3RunStep \/ F3Score \/ F3Compare

SpecF3 == F3Init /\ [][F3Next]_vars

(* ------------------------ test_F3_triviality_v2 ----------------------- *)

\* 0.3 * np.sin(i * 0.1) + 0.3
OffsetSineInput(i) == SineInput(i) + (3 * One) \div 10

\* the sum of (xs[i] - mx) * (ys[i] - my)
Covariation(xs, mx, ys, my) ==
    SumSeq([i \in DOMAIN xs |-> (xs[i] - mx) * (ys[i] - my)], Len(xs))

\* np.corrcoef(xs, ys)[0, 1] in thousandths; None where it is nan: a
\* single sample, or a sequence without variance (0 / 0)
Corrcoef(xs, ys) ==
    LET mx == Mean(xs)
        my == Mean(ys)
        vx == Covariation(xs, mx, xs, mx)
        vy == Covariation(ys, my, ys, my)
        sx == Isqrt(100 * vx)
        sy == Isqrt(100 * vy)
    IN IF Len(xs) < 2 \/ vx = 0 \/ vy = 0 THEN None
       ELSE Some(Clip(TruncDiv(TruncDiv(100 * Covariation(xs, mx, ys, my), sx)
                                  * SinOne, sy),
                      -SinOne, SinOne))

\* np.mean of a list of values that may be nan; nan for the empty list
\* and for a list that holds a nan
MeanOrNan(xs) ==
    IF Len(xs) = 0 \/ \E i \in DOMAIN xs : xs[i] = None THEN None
    ELSE Some(Mean([i \in DOMAIN xs |-> xs[i][1]]))

\* the thresholds of the verdict: 0.1 of a coupling, 0.9 of a correlation
F3v2DivergenceBelow == One \div 10
F3v2CorrelationAbove == (9 * SinOne) \div 10

\* the result record of test_F3_triviality_v2; a comparison with nan is
\* false
F3v2Result(divergences) ==
    LET avg_divergence ==
            MeanOrNan([i \in DOMAIN divergences |-> Some(divergences[i].final_divergence)])
        avg_correlation ==
            MeanOrNan([i \in DOMAIN divergences |-> divergences[i].correlation])
    IN [falsified |-> /\ avg_divergence # None
                      /\ avg_divergence[1] < F3v2DivergenceBelow
                      /\ avg_correlation # None
                      /\ avg_correlation[1] > F3v2CorrelationAbove,
        avg_divergence |-> avg_divergence,
        avg_correlation |-> avg_correlation]

\* no engine exists before the first trial
F3v2Init ==
    \E num_trials \in 0 .. MaxF3v2Trials, num_steps \in 1 .. MaxF3v2Steps :
        /\ rng = Unseeded
        /\ oscs = <<>>
        /\ hist = <<>>
        /\ lastOp = [op |-> "none", osc |-> 0, pre |-> None, raised |-> FALSE]
        /\ driver = "test"
        /\ test = [name |-> "F3v2", num_trials |-> num_trials,
                   num_steps |-> num_steps, pc |-> "trial", trial |-> 0,
                   couplings_A |-> <<>>, couplings_B |-> <<>>,
                   divergences |-> <<>>, result |-> None]

\* a trial begins: osc_A and osc_B are constructed, then the stream is
\* seeded once more
F3v2Begin ==
    LET madeA == Construct(rng, test.trial * 2)
        madeB == Construct(madeA.stream, test.trial * 2 + 1)
    IN /\ test.name = "F3v2"
       /\ test.pc = "trial"
       /\ test.trial < test.num_trials
       /\ rng' = RandomSeed(madeB.stream, test.trial + 10000)
       /\ oscs' = <<madeA.osc, madeB.osc>>
       /\ hist' = <<[seed |-> test.trial * 2, calls |-> <<>>],
                    [seed |-> test.trial * 2 + 1, calls |-> <<>>]>>
       /\ lastOp' = [op |-> "__init__", osc |-> 2, pre |-> madeB.osc, raised |-> FALSE]
       /\ test' = [test EXCEPT !.pc = "run", !.couplings_A = <<>>, !.couplings_B = <<>>]
       /\ UNCHANGED driver

\* one pass of `for inp in inputs`: both engines are stepped
F3v2Step ==
    LET c == Call(OffsetSineInput(Len(test.couplings_A)), TRUE, None)
        A == evolve_step(oscs[1], c.input_energy, c.use_feedback, c.fixed_coupling)
        B == evolve_step(oscs[2], c.input_energy, c.use_feedback, c.fixed_coupling)
    IN /\ test.name = "F3v2"
       /\ test.pc = "run"
       /\ Len(test.couplings_A) < test.num_steps
       /\ oscs' = <<A, B>>
       /\ hist' = [e \in DOMAIN hist |-> [hist[e] EXCEPT !.calls = Append(@, c)]]
       /\ lastOp' = [op |-> "evolve_step", osc |-> 2, pre |-> oscs[2], raised |-> FALSE]
       /\ test' = [test EXCEPT !.couplings_A = Append(@, A.coupling),
                                !.couplings_B = Append(@, B.coupling)]
       /\ UNCHANGED <<rng, driver>>

\* the trial is measured; each entry also keeps the two trajectories it
\* was computed from
F3v2Measure ==
    LET A == test.couplings_A
        B == test.couplings_B
    IN /\ test.name = "F3v2"
       /\ test.pc = "run"
       /\ Len(A) = test.num_steps
       /\ test' = [test EXCEPT
                      !.pc = "trial",
                      !.trial = @ + 1,
                      !.divergences = Append(@,
                          [final_divergence |-> Abs(A[Len(A)] - B[Len(B)]),
                           correlation |-> Corrcoef(A, B),
                           couplings_A |-> A, couplings_B |-> B])]
       /\ UNCHANGED <<rng, oscs, hist, lastOp, driver>>

\* the trials are over: the averages, the verdict and the return
F3v2Average ==
    /\ test.name = "F3v2"
    /\ test.pc = "trial"
    /\ test.trial = test.num_trials
    /\ test' = [test EXCEPT !.pc = "done",
                             !.result = Some(F3v2Result(test.divergences))]
    /\ UNCHANGED <<rng, oscs, hist, lastOp, driver>>

F3v2Next == F3v2Begin \/ F3v2Step \/ F3v2Measure \/ F3v2Average

SpecF3v2 == F3v2Init /\ [][F3v2Next]_vars

(* -------------------------- test_F4_simulation ------------------------- *)

RECURSIVE FloorLog2(_)
FloorLog2(x) == IF x < 2 THEN 0 ELSE 1 + FloorLog2(x \div 2)

\* ln 2 in ten-thousandths
Ln2 == 6931

\* np.log(x) in thousandths, x a positive integer: x = m * 2**k with m in
\* [1, 2), ln m = 2 * atanh(z) = 2 * (z + z^3/3 + z^5/5 + z^7/7) for
\* z = (m - 1) / (m + 1)
Ln(x) ==
    LET k == FloorLog2(x)
        z == ((x - Pow2(k)) * PerRad) \div (x + Pow2(k))
        z2 == (z * z) \div PerRad
        z3 == (z * z2) \div PerRad
        z5 == (z3 * z2) \div PerRad
        z7 == (z5 * z2) \div PerRad
    IN (k * Ln2 + 2 * (z + z3 \div 3 + z5 \div 5 + z7 \div 7)) \div 10

\* the cost of all-to-all coupling counted in the simulation
SimulationOpsAllToAll(n) == 5 * n + n * n * n

PhysicalOps(n) == 5 * n + 2
SimulationOps(n) == 5 * n + n
FullKuramotoOps(n) == 5 * n + n * n

\* np.polyfit(xs, ys, 1)[0] in hundredths, for xs that are not all equal:
\* the least-squares slope
PolyfitSlope(xs, ys) ==
    LET mx == Mean(xs)
        my == Mean(ys)
    IN TruncDiv(100 * Covariation(xs, mx, ys, my), Covariation(xs, mx, xs, mx))

\* the default n_oscillators_range
F4DefaultRange == << 4, 8, 16, 32, 64 >>

\* the oscillator counts the other ranges are made of
F4Sizes == {1, 3, 4, 10, 16, 64}

\* the ranges explored: the default one and every list of at most
\* MaxRangeLen sizes, at least two of them different
F4Ranges ==
    {F4DefaultRange} \cup
    UNION {{r \in [1 .. len -> F4Sizes] : \E i, j \in 1 .. len : r[i] # r[j]} :
              len \in 2 .. MaxRangeLen}

F4Init ==
    \E range \in F4Ranges :
        /\ rng = Unseeded
        /\ oscs = <<>>
        /\ hist = <<>>
        /\ lastOp = [op |-> "none", osc |-> 0, pre |-> None, raised |-> FALSE]
        /\ driver = "test"
        /\ test = [name |-> "F4", n_oscillators_range |-> range, pc |-> "count",
                   results |-> <<>>, result |-> None]

\* one pass of `for n in n_oscillators_range`
F4Count ==
    LET n == test.n_oscillators_range[Len(test.results) + 1]
    IN /\ test.name = "F4"
       /\ test.pc = "count"
       /\ Len(test.results) < Len(test.n_oscillators_range)
       /\ test' = [test EXCEPT !.results = Append(@,
                       [n |-> n,
                        physical_ops |-> PhysicalOps(n),
                        simulation_ops |-> SimulationOps(n),
                        full_kuramoto_ops |-> FullKuramotoOps(n)])]
       /\ UNCHANGED <<rng, oscs, hist, lastOp, driver>>

\* the result record of test_F4_simulation (the two ratios of each entry
\* are left out): falsified = scaling_exponent < 2.0
F4Result(results) ==
    LET ns == [i \in DOMAIN results |-> Ln(results[i].n)]
        sim_ops == [i \in DOMAIN results |-> Ln(results[i].simulation_ops)]
        scaling_exponent == PolyfitSlope(ns, sim_ops)
    IN [falsified |-> scaling_exponent < 200,
        scaling_exponent |-> scaling_exponent,
        results |-> results]

\* the fit, the verdict and the return
F4Fit ==
    /\ test.name = "F4"
    /\ test.pc = "count"
    /\ Len(test.results) = Len(test.n_oscillators_range)
    /\ test' = [test EXCEPT !.pc = "done", !.result = Some(F4Result(test.results))]
    /\ UNCHANGED <<rng, oscs, hist, lastOp, driver>>

F4Next == F4Count \/ F4Fit

SpecF4 == F4Init /\ [][F4Next]_vars

(* -------------------------------- main --------------------------------- *)

\* the `tests` dict in insertion order: its key, the function it names and
\* the "test" field of the record that function returns
MainTests ==
    << [key |-> "F1", fn |-> "test_F1_reducibility", label |-> "F1"],
       [key |-> "F2", fn |-> "test_F2_separability", label |-> "F2"],
       [key |-> "F3", fn |-> "test_F3_triviality_v2", label |-> "F3"],
       [key |-> "F3_old", fn |-> "test_F3_triviality", label |-> "F3"],
       [key |-> "F4", fn |-> "test_F4_simulation", label |-> "F4"] >>

\* the parsed command lines: --test with one of its four choices or absent,
\* --all given or not
MainArgs ==
    {[test |-> t, all |-> a] :
        t \in {None, Some("F1"), Some("F2"), Some("F3"), Some("F4")},
        a \in BOOLEAN}

\* the flag set only when every record is falsified
AnyFalsifiedEvery(results) ==
    /\ results # <<>>
    /\ \A i \in DOMAIN results : results[i].falsified

RECURSIVE AnyFalsified(_)
\* any_falsified after `for r in results: if r["falsified"]: any_falsified = True`
AnyFalsified(results) ==
    IF results = <<>> THEN FALSE
    ELSE IF Head(results).falsified THEN TRUE
    ELSE AnyFalsified(Tail(results))

MainInit ==
    \E args \in MainArgs :
        /\ rng = Unseeded
        /\ oscs = <<>>
        /\ hist = <<>>
        /\ lastOp = [op |-> "none", osc |-> 0, pre |-> None, raised |-> FALSE]
        /\ driver = "test"
        /\ test = [name |-> "main", args |-> args, pc |-> "run",
                   ran |-> <<>>, results |-> <<>>, printed |-> None]

\* result = test_fn(); results.append(result): the test named by --test, or
\* the next one of the dict. Each test runs with its default arguments; of
\* its record only "test" and "falsified" are read here. The verdict of F4
\* on its default range is computed, the verdicts of the other tests are
\* taken either way.
MainRun ==
    \E i \in DOMAIN MainTests, verdict \in BOOLEAN :
        LET entry == MainTests[i]
            f4 == F4Result([k \in DOMAIN F4DefaultRange |->
                      [n |-> F4DefaultRange[k],
                       physical_ops |-> PhysicalOps(F4DefaultRange[k]),
                       simulation_ops |-> SimulationOps(F4DefaultRange[k]),
                       full_kuramoto_ops |-> FullKuramotoOps(F4DefaultRange[k])]])
            result == [test |-> entry.label,
                       falsified |-> IF entry.key = "F4" THEN f4.falsified ELSE verdict]
            single == test.args.test # None
        IN /\ test.name = "main"
           /\ test.pc = "run"
           /\ IF single THEN entry.key = test.args.test[1]
                        ELSE i = Len(test.results) + 1
           /\ test' = [test EXCEPT
                  !.ran = Append(@, entry.fn),
                  !.results = Append(@, result),
                  !.pc = IF single \/ i = Len(MainTests) THEN "summary" ELSE "run"]
           /\ UNCHANGED <<rng, oscs, hist, lastOp, driver>>

\* the summary: one row per record, then the verdict line; returns results
MainSummary ==
    /\ test.name = "main"
    /\ test.pc = "summary"
    /\ test' = [test EXCEPT
           !.pc = "done",
           !.printed = Some(
               [rows |-> [i \in DOMAIN test.results |->
                            [test |-> test.results[i].test,
                             status |-> IF test.results[i].falsified
                                           THEN "FALSIFIED" ELSE "NOT FALSIFIED"]],
                verdict |-> IF AnyFalsified(test.results)
                               THEN "ETM CLAIM IS WEAKENED"
                               ELSE "ETM CLAIM SURVIVES"])]
    /\ UNCHANGED <<rng, oscs, hist, lastOp, driver>>

MainNext == MainRun \/ MainSummary

SpecMain == MainInit /\ [][MainNext]_vars

(* ------------------------- reading the state --------------------------- *)

\* the engine the last operation acted on, before and after it
Pre == lastOp.pre
Post == oscs[lastOp.osc]

Stepped == lastOp.op = "evolve_step"

\* the arguments of the last evolve_step call
LastCall == hist[lastOp.osc].calls[Len(hist[lastOp.osc].calls)]

InRange(k) == COUPLING_MIN <= k /\ k <= COUPLING_MAX

(* ------------------------------- claims -------------------------------- *)

\* C1: in every state reached by evolve_step calls with fixed_coupling
\* unset or in [0.01, 2.0], the coupling of every engine lies in
\* [0.01, 2.0].
C1_CouplingInRange == \A e \in DOMAIN oscs : InRange(oscs[e].coupling)

\* a feedback step that found the coupling at 2.0 and a coherence below the
\* low threshold, so that only the clip kept it at 2.0
C1_ClippedAtMax ==
    /\ Stepped
    /\ LastCall.use_feedback
    /\ Pre.coupling = COUPLING_MAX
    /\ get_coherence(Post) < COHERENCE_LOW
    /\ Post.coupling = COUPLING_MAX

\* C2: after construction, after reset and after every evolve_step call,
\* whether or not the cross-band coupling ran in it, every phase lies in
\* [0, 2*pi).
C2_PhasesWrapped ==
    \A e \in DOMAIN oscs : \A b \in Bands : \A n \in Neurons :
        0 <= oscs[e].phases[b][n] /\ oscs[e].phases[b][n] < TwoPi

\* a step whose effective K was below 0.01, so that the coupling was skipped
C2_CouplingSkipped ==
    /\ Stepped
    /\ EffectiveK(Pre, LastCall.fixed_coupling) < COUPLING_MIN
    /\ Post.phases = Wrap(Rotate(Pre.phases))

\* C3: two engines constructed with the same seed that have received the
\* same sequence of evolve_step calls hold identical phases, magnitudes and
\* coupling.
C3_Deterministic ==
    \A e1 \in DOMAIN oscs : \A e2 \in DOMAIN oscs :
        hist[e1] = hist[e2] => oscs[e1] = oscs[e2]

\* the second engine, built after the first was stepped, has caught up
\* with it over two calls
C3_SecondCaughtUp ==
    /\ Len(oscs) = 2
    /\ lastOp.osc = 2
    /\ Stepped
    /\ hist[1] = hist[2]
    /\ Len(hist[2].calls) >= 2

\* the cross-band coupling with every pull computed from the phases as
\* they stood when the coupling began
CoupleFromStart(phases, K) ==
    IF K >= COUPLING_MIN
       THEN Wrap([dst \in Bands |-> [n \in Neurons |->
                phases[dst][n]
                + SumTo([src \in Bands |->
                            IF src = dst THEN 0 ELSE Pull(phases, K, src, dst)],
                        NumBands - 1)]])
       ELSE phases

ReversedPairOrder == [i \in 1 .. Len(PairOrder) |-> PairOrder[Len(PairOrder) + 1 - i]]

\* C4: the pulls of a step are all computed from the phases as they stood
\* at the start of the cross-band coupling, so the phases after the step do
\* not depend on the order in which the pairs are processed.
C4_PullsFromStart ==
    Stepped =>
        LET rotated == Wrap(Rotate(Pre.phases))
            K == EffectiveK(Pre, LastCall.fixed_coupling)
        IN /\ Post.phases = CoupleFromStart(rotated, K)
           /\ Post.phases = Couple(rotated, K, ReversedPairOrder)

\* C5: with use_feedback, the coupling is multiplied by 0.995 if the
\* coherence measured after this step's rotation and pulls is above 0.6, by
\* 1.005 if it is below 0.25, left alone otherwise, then clipped to
\* [0.01, 2.0]; the pulls of the same step (fixed_coupling unset) used the
\* coupling held before that update.
C5_FeedbackAfterPulls ==
    (Stepped /\ LastCall.use_feedback) =>
        LET coherence == Coherence(Post.phases, Post.magnitudes)
            k == IF coherence > COHERENCE_HIGH
                    THEN TruncDiv(Pre.coupling * COUPLING_DECAY, 1000)
                 ELSE IF coherence < COHERENCE_LOW
                    THEN TruncDiv(Pre.coupling * COUPLING_GROWTH, 1000)
                 ELSE Pre.coupling
        IN /\ Post.coupling =
                 (IF k < COUPLING_MIN THEN COUPLING_MIN
                  ELSE IF k > COUPLING_MAX THEN COUPLING_MAX ELSE k)
           /\ LastCall.fixed_coupling = None =>
                 Post.phases = Couple(Wrap(Rotate(Pre.phases)), Pre.coupling, PairOrder)

\* a feedback step that lowered the coupling although the coherence before
\* the step was not above the high threshold
C5_DecayedOnNewCoherence ==
    /\ Stepped
    /\ LastCall.use_feedback
    /\ LastCall.fixed_coupling = None
    /\ get_coherence(Pre) <= COHERENCE_HIGH
    /\ get_coherence(Post) > COHERENCE_HIGH
    /\ Post.coupling < Pre.coupling

\* C6: without use_feedback the coherence rule is not applied: the coupling
\* after the step is fixed_coupling if one was supplied and is unchanged
\* otherwise.
C6_NoFeedbackCoupling ==
    (Stepped /\ ~LastCall.use_feedback) =>
        Post.coupling = (IF LastCall.fixed_coupling # None
                            THEN LastCall.fixed_coupling[1]
                            ELSE Pre.coupling)

\* a step without feedback and without fixed_coupling that left the
\* coupling alone where the coherence rule would have raised it
C6_RuleNotApplied ==
    /\ Stepped
    /\ ~LastCall.use_feedback
    /\ LastCall.fixed_coupling = None
    /\ get_coherence(Post) < COHERENCE_LOW
    /\ Pre.coupling < COUPLING_MAX
    /\ Post.coupling = Pre.coupling

\* C7: evolve_step with a fixed_coupling outside [0.01, 2.0] raises and
\* leaves phases, magnitudes and coupling unchanged.
C7_OutOfRangeRejected ==
    (Stepped /\ LastCall.fixed_coupling # None /\ ~InRange(LastCall.fixed_coupling[1])) =>
        lastOp.raised /\ Post = Pre

\* C8: a step adds 0.1 * input_energy to exactly the magnitudes that were
\* below 0.5, and only if input_energy > 0; every magnitude is then
\* multiplied by its band's decay factor, and nothing else changes it.
C8_InjectionGated ==
    Stepped =>
        \A b \in Bands : \A n \in Neurons :
            LET before == Pre.magnitudes[b][n]
                added == IF LastCall.input_energy > 0 /\ before < InjectBelow
                            THEN TruncDiv(LastCall.input_energy, 10)
                            ELSE 0
            IN Post.magnitudes[b][n] = TruncDiv((before + added) * BAND_DECAY[b], 100)

\* a step with positive input that found magnitudes on both sides of 0.5
C8_SomeInjected ==
    /\ Stepped
    /\ LastCall.input_energy > 0
    /\ \E b \in Bands : \E n \in Neurons : Pre.magnitudes[b][n] < InjectBelow
    /\ \E b \in Bands : \E n \in Neurons : Pre.magnitudes[b][n] >= InjectBelow

AllZeroInput(calls) == \A i \in 1 .. Len(calls) : calls[i].input_energy = 0

\* C9: while every evolve_step call so far had input_energy = 0, no
\* magnitude is larger after a step than it was before it.
C9_NonIncreasing ==
    (Stepped /\ AllZeroInput(hist[lastOp.osc].calls)) =>
        \A b \in Bands : \A n \in Neurons :
            Post.magnitudes[b][n] <= Pre.magnitudes[b][n]

\* a second zero-input step, made without feedback under a fixed coupling,
\* after which every magnitude is smaller than before
C9_DecayedTwice ==
    /\ Stepped
    /\ AllZeroInput(hist[lastOp.osc].calls)
    /\ Len(hist[lastOp.osc].calls) >= 2
    /\ ~LastCall.use_feedback
    /\ LastCall.fixed_coupling # None
    /\ \A b \in Bands : \A n \in Neurons :
           Post.magnitudes[b][n] < Pre.magnitudes[b][n]

NoneValid(magnitudes) ==
    \A b \in Bands : \A n \in Neurons : magnitudes[b][n] <= ValidAbove

\* the phases with those of the oscillators of magnitude <= 0.01 set to 0
MaskedPhases(osc) ==
    [b \in Bands |-> [n \in Neurons |->
        IF osc.magnitudes[b][n] <= ValidAbove THEN 0 ELSE osc.phases[b][n]]]

\* C10: coherence() lies in [0, 1]; it is 0 when no oscillator has a
\* magnitude above 0.01; and the phases of the oscillators of magnitude
\* <= 0.01 do not enter it.
C10_CoherenceBounded ==
    \A e \in DOMAIN oscs :
        LET c == get_coherence(oscs[e])
        IN /\ 0 <= c /\ c <= SinOne
           /\ NoneValid(oscs[e].magnitudes) => c = 0
           /\ c = Coherence(MaskedPhases(oscs[e]), oscs[e].magnitudes)

\* the step at which the last magnitude fell to 0.01 or below
C10_AllFaded ==
    /\ Stepped
    /\ ~NoneValid(Pre.magnitudes)
    /\ NoneValid(Post.magnitudes)
    /\ get_coherence(Post) = 0

\* the state the source gives an engine seeded with s: the first outputs of
\* the stream seeded with s as phases, magnitudes 0.9, coupling 0.5
SeededState(s) ==
    [phases |-> [b \in Bands |-> [n \in Neurons |->
                    (MTOutputs(s)[b * NeuronsPerBand + n + 1] * TwoPi) \div PerRad]],
     magnitudes |-> [b \in Bands |-> [n \in Neurons |-> (9 * One) \div 10]],
     coupling |-> One \div 2]

RECURSIVE Replayed(_, _)
\* the seeded state after the first i calls of the history h
Replayed(h, i) ==
    IF i = 0 THEN SeededState(h.seed)
    ELSE LET c == h.calls[i]
         IN evolve_step(Replayed(h, i - 1),
                        c.input_energy, c.use_feedback, c.fixed_coupling)

\* C11: the state of every engine is a function of the seed it was last
\* constructed or reset with and of the evolve_step calls it received
\* since: the seeded initial state (phases from the stream seeded with that
\* seed, magnitudes 0.9, coupling 0.5) followed by its own calls, whatever
\* was constructed, reset or stepped on the other engine and in whatever
\* order.
C11_OwnSeedAndCalls ==
    \A e \in DOMAIN oscs : oscs[e] = Replayed(hist[e], Len(hist[e].calls))

\* the first engine was reset, with a seed of its own, after the second
\* was constructed and stepped twice
C11_ResetBesideStepped ==
    /\ Len(oscs) = 2
    /\ lastOp.op = "reset"
    /\ lastOp.osc = 1
    /\ hist[1].seed # hist[2].seed
    /\ Len(hist[2].calls) >= 2

IsRead == lastOp.op \in {"get_coherence", "get_state_hash"}

IsBin(q, precision) == 0 <= q /\ q <= Pow2(precision) - 1

\* C13: in every reachable state and for every precision p >= 1, every
\* component of get_state_hash(p) is a bin index in 0 .. 2^p - 1: each
\* quantized phase, each quantized magnitude and the quantized coupling.
C13_BinIndices ==
    \A e \in DOMAIN oscs : \A p \in 1 .. MaxPrecision :
        LET h == get_state_hash(oscs[e], p)
        IN /\ \A i \in DOMAIN h[1] : IsBin(h[1][i], p)
           /\ \A i \in DOMAIN h[2] : IsBin(h[2][i], p)
           /\ IsBin(h[3], p)

\* the record holds what the engine holds
Records(record, osc) ==
    /\ record.coherence = get_coherence(osc)
    /\ record.coupling = osc.coupling
    /\ record.phases = osc.phases

InF2 == test.name = "F2"

\* the coupled run has made as many calls as it holds records, and holds
\* num_steps of them once it is over
C14_LengthIsSteps ==
    InF2 => /\ Len(test.coupled_trajectory) = Len(hist[1].calls)
            /\ Len(test.coupled_trajectory) <= test.num_steps
            /\ test.pc # "coupled" => Len(test.coupled_trajectory) = test.num_steps

\* within a trial no step changes a record already appended; a record is
\* appended exactly when evolve_step is called on the coupled engine, the
\* call takes the input of the step index, and the record holds the
\* coherence, coupling and phases the call left
C14_AppendsOnCall ==
    LET old == test.coupled_trajectory
        new == test'.coupled_trajectory
        called == hist'[1].calls # hist[1].calls
    IN (InF2 /\ test'.trial = test.trial) =>
          /\ Len(new) >= Len(old)
          /\ \A i \in DOMAIN old :
                 /\ new[i].coherence = old[i].coherence
                 /\ new[i].coupling = old[i].coupling
                 /\ new[i].phases = old[i].phases
          /\ called <=> Len(new) = Len(old) + 1
          /\ ~called => Len(new) = Len(old)
          /\ called =>
                 /\ hist'[1].calls =
                        Append(hist[1].calls, Call(SineInput(Len(old)), TRUE, None))
                 /\ Records(new[Len(new)], oscs'[1])

\* C14: a trajectory run of num_steps steps calls evolve_step exactly
\* num_steps times, with the input of step i for i = 0 .. num_steps - 1 in
\* increasing order, and appends one record (coherence, coupling, phases,
\* all read after that step) per call, so the trajectory has num_steps
\* records; the recorded phases are a copy, so no later evolve_step call
\* changes a record already appended.
C14_OneRecordPerStep == []C14_LengthIsSteps /\ [][C14_AppendsOnCall]_vars

\* the coupled run of the longest length is over, its first records
\* holding different phases, and the separated engine has been stepped
C14_RunComplete ==
    /\ InF2
    /\ test.num_steps = MaxF2Steps
    /\ Len(test.coupled_trajectory) = MaxF2Steps
    /\ test.coupled_trajectory[1].phases # test.coupled_trajectory[2].phases
    /\ Len(test.separated_trajectory) >= 1

\* the coupling and the coherence the separated run held after step i - 1,
\* those of the initial state for the first step
SeparatedBefore(i) ==
    IF i = 1 THEN [coupling |-> SeededState(hist[2].seed).coupling,
                   coherence |-> get_coherence(SeededState(hist[2].seed))]
    ELSE [coupling |-> test.separated_trajectory[i - 1].coupling,
          coherence |-> test.separated_trajectory[i - 1].coherence]

\* C17: in every trial of test_F2_separability the coupled and the
\* separated engine are built with the same seed and are given the same
\* input 0.3 * sin(0.1 * i) at step i; the separated engine's own
\* evolve_step never changes its coupling; and the coupling recorded after
\* step i is the threshold / decay / growth / clip rule applied to the
\* coherence measured after step i - 1 (the initial state's for i = 0).
C17_DelayedFeedback ==
    (InF2 /\ Len(oscs) = 2) =>
       /\ hist[1].seed = hist[2].seed
       /\ \A i \in DOMAIN hist[2].calls :
              /\ hist[2].calls[i] = Call(SineInput(i - 1), FALSE, None)
              /\ hist[1].calls[i].input_energy = hist[2].calls[i].input_energy
       /\ test.pc = "feedback" => oscs[2].coupling = Pre.coupling
       /\ \A i \in DOMAIN test.separated_trajectory :
              test.separated_trajectory[i].coupling =
                 Feedback(SeparatedBefore(i).coupling, SeparatedBefore(i).coherence)

\* the delay has shown: a pass of the separated loop left a coupling other
\* than the one the coupled run recorded after the same step
C17_DelayShows ==
    /\ InF2
    /\ lastOp.op = "feedback"
    /\ LET i == Len(test.separated_trajectory)
       IN test.separated_trajectory[i].coupling # test.coupled_trajectory[i].coupling

InF1 == test.name = "F1"

\* every key of the map is a visited state, so the map is no larger than
\* the visited set, and the result reports them so
C15_KeysAreVisited ==
    InF1 => /\ DOMAIN test.transitions \subseteq test.states_visited
            /\ Cardinality(DOMAIN test.transitions) <= Cardinality(test.states_visited)
            /\ test.pc = "done" =>
                  test.result[1].transitions <= test.result[1].unique_states

\* a key keeps the next-state first recorded for it, and the only key a
\* pass adds is the state it started from
C15_FirstKept ==
    InF1 =>
       /\ \A k \in DOMAIN test.transitions :
              /\ k \in DOMAIN test'.transitions
              /\ test'.transitions[k] = test.transitions[k]
       /\ \A k \in DOMAIN test'.transitions \ DOMAIN test.transitions :
              /\ test'.state = Some(k)
              /\ test'.next_state = Some(test'.transitions[k])

\* C15: test_F1_reducibility returns transitions <= unique_states for
\* every num_steps and precision_bits: every key of the (state ->
\* next-state) map is a state added to the visited set, and when a visited
\* state is later followed by a different next-state the next-state first
\* recorded is kept and no entry is added.
C15_TransitionsWithinVisited == []C15_KeysAreVisited /\ [][C15_FirstKept]_vars

\* a pass started from a state that was a key already and ended in a
\* next-state other than the one recorded for it
C15_FollowedDifferently ==
    /\ InF1
    /\ test.state # None
    /\ test.transitions[test.state[1]] # test.next_state[1]

\* C16: test_F1_reducibility called with num_steps < 5 returns (without
\* raising) unique_states = 0, transitions = 0 and falsified = true.
C16_EmptyRunFalsified ==
    (InF1 /\ test.pc = "done" /\ test.num_steps < Len(F1Inputs)) =>
        /\ test.result[1].unique_states = 0
        /\ test.result[1].transitions = 0
        /\ test.result[1].falsified

\* the test has returned from a run of 4 steps: five resets, no pass of
\* the inner loop
C16_FourStepsDone ==
    /\ InF1
    /\ test.pc = "done"
    /\ test.num_steps = 4
    /\ test.input = Len(F1Inputs)
    /\ test.state = None

InF3 == test.name = "F3"

\* the i-th grid result is the best one: no grid point scores higher and
\* none before it scores as high
BestOfGrid(all, i) ==
    \A j \in DOMAIN all :
        /\ all[j].score <= all[i].score
        /\ all[j].score = all[i].score => j >= i

\* C18: the constant-K grid search of test_F3_triviality (num_k_values >=
\* 1) returns a best_constant_k that is one of the grid points, all of
\* them in [0.01, 2.0], whose score is at least every other grid point's,
\* the smallest such K on ties; every grid run starts from the seed of the
\* dynamic run and holds the coupling equal to its K after every step;
\* and score_ratio = best_constant_score / dynamic_score is a finite
\* non-negative real.
C18_BestGridPoint ==
    InF3 =>
       /\ hist[1].seed = DefaultSeed
       /\ Len(test.coherences) = 0 => oscs[1] = SeededState(DefaultSeed)
       /\ test.run >= 1 =>
              \A i \in DOMAIN test.couplings :
                  test.couplings[i] = Linspace(test.run, test.num_k_values)
       /\ test.pc = "done" =>
              LET all == test.all_constant_results
                  r == test.result[1]
              IN /\ Len(all) = test.num_k_values
                 /\ \A i \in DOMAIN all :
                        /\ all[i].k = Linspace(i, test.num_k_values)
                        /\ InRange(all[i].k)
                        /\ all[i].final_coupling = all[i].k
                 /\ \E i \in DOMAIN all :
                        /\ r.best_constant_k = all[i].k
                        /\ r.best_constant_score = all[i].score
                        /\ BestOfGrid(all, i)
                 /\ r.score_ratio # None
                 /\ r.score_ratio[1] >= 0

\* the test has returned from the longest run over the largest grid, the
\* best grid point being the last one and scoring above the dynamic run
C18_LastPointBest ==
    /\ InF3
    /\ test.pc = "done"
    /\ test.num_steps = MaxF3Steps
    /\ test.num_k_values = MaxKValues
    /\ test.result[1].best_constant_k = 2 * One
    /\ test.result[1].best_constant_score > test.result[1].dynamic_score

InF3v2 == test.name = "F3v2"

InF4 == test.name = "F4"

\* C20: test_F4_simulation counts, for every n of the range, physical_ops
\* = 5n + 2, simulation_ops = 6n and full_kuramoto_ops = 5n + n^2
\* exactly, and for a range of at least two distinct positive n the
\* exponent fitted to simulation_ops against n is strictly below 2.0, so
\* that falsified is true.
C20_LinearSimulation ==
    InF4 =>
       /\ \A i \in DOMAIN test.results :
              LET r == test.results[i]
              IN /\ r.n = test.n_oscillators_range[i]
                 /\ r.physical_ops = 5 * r.n + 2
                 /\ r.simulation_ops = 6 * r.n
                 /\ r.full_kuramoto_ops = 5 * r.n + r.n * r.n
       /\ test.pc = "done" =>
              /\ Len(test.results) = Len(test.n_oscillators_range)
              /\ test.result[1].scaling_exponent < 200
              /\ test.result[1].falsified

\* the test has returned from the default range, the fitted exponent
\* being about 1
C20_DefaultRangeDone ==
    /\ InF4
    /\ test.pc = "done"
    /\ test.n_oscillators_range = F4DefaultRange
    /\ test.result[1].scaling_exponent >= 99
    /\ test.result[1].scaling_exponent <= 101

\* the average magnitude of the oscillators of band b of engine 1
BandMean(b) == SumTo(oscs[1].magnitudes[b], NeuronsPerBand - 1) \div NeuronsPerBand

Delta == 0
Theta == 1
Alpha == 2
Gamma == 3

\* engine 1 was built with seed 12345 and has taken its first k steps of the
\* burst run, 1 <= k <= 60
InBurstRun ==
    /\ driver = "burst"
    /\ hist[1].seed = DefaultSeed
    /\ Len(hist[1].calls) \in 1 .. 60

InMain == driver = "test" /\ test.name = "main"

\* the functions of the tests dict, in its order
MainFunctions == [i \in DOMAIN MainTests |-> MainTests[i].fn]

\* what holds of a finished report
C22_Summary ==
    InMain /\ test.pc = "done" =>
        LET printed == test.printed[1]
            some == \E i \in DOMAIN test.results : test.results[i].falsified
        IN /\ printed.verdict \in {"ETM CLAIM IS WEAKENED", "ETM CLAIM SURVIVES"}
           /\ printed.verdict = "ETM CLAIM IS WEAKENED" <=> some
           /\ printed.verdict = "ETM CLAIM SURVIVES" <=> ~some
           /\ Len(printed.rows) = Len(test.results)
           /\ \A i \in DOMAIN test.results :
                 /\ printed.rows[i].test = test.results[i].test
                 /\ printed.rows[i].status = "FALSIFIED" <=> test.results[i].falsified
           /\ Len(test.results) = Len(test.ran)
           /\ IF test.args.test = None
                 THEN test.ran = MainFunctions
                 ELSE \E i \in DOMAIN MainTests :
                         /\ MainTests[i].key = test.args.test[1]
                         /\ test.ran = <<MainTests[i].fn>>

\* what every step of main does to the collected records: nothing, or one
\* record appended, that of the test that ran in the step
C22_Concatenates ==
    InMain =>
        \/ test'.results = test.results /\ test'.ran = test.ran
        \/ /\ Len(test'.results) = Len(test.results) + 1
           /\ Len(test'.ran) = Len(test.ran) + 1
           /\ SubSeq(test'.results, 1, Len(test.results)) = test.results
           /\ SubSeq(test'.ran, 1, Len(test.ran)) = test.ran
           /\ \E i \in DOMAIN MainTests :
                 /\ MainTests[i].fn = test'.ran[Len(test'.ran)]
                 /\ MainTests[i].label = test'.results[Len(test'.results)].test

\* C22: main only appends each test's record to the list, in the order the
\* tests ran, and never changes or drops one; it prints ETM CLAIM IS WEAKENED
\* exactly when some collected record is falsified and ETM CLAIM SURVIVES
\* exactly when none is; without --test (with or without --all) it collects
\* one record from each of the five entries of the tests dict, in its order,
\* both F3 variants among them
C22_ReportAggregates == []C22_Summary /\ [][C22_Concatenates]_vars

\* a finished report of all five tests, weakened by the last one alone
C22_AllRanOneFalsified ==
    /\ InMain
    /\ test.pc = "done"
    /\ test.args = [test |-> None, all |-> TRUE]
    /\ Len(test.results) = Len(MainTests)
    /\ \A i \in DOMAIN test.results :
          test.results[i].falsified <=> i = Len(MainTests)
    /\ test.printed[1].verdict = "ETM CLAIM IS WEAKENED"

\* phases[b][n1] - phases[b][n2] modulo 2 pi
Apart(phases, b, n1, n2) == Mod(phases[b][n1] - phases[b][n2], TwoPi)

\* C23: in every reachable state, for any inputs, feedback setting and
\* coupling, the phase difference modulo 2 pi between any two neurons of
\* the same band is what it was when the engine was constructed (or last
\* reset, which draws the phases anew)
C23_BandMovesTogether ==
    \A e \in DOMAIN oscs : \A b \in Bands : \A n1, n2 \in Neurons :
        Apart(oscs[e].phases, b, n1, n2)
            = Apart(SeededState(hist[e].seed).phases, b, n1, n2)

\* a second step in a row that pulled some band by other than a whole turn,
\* under a coupling the first step's feedback had changed
C23_PulledTwice ==
    /\ Stepped
    /\ Len(hist[lastOp.osc].calls) >= 2
    /\ LastCall.fixed_coupling = None
    /\ Pre.coupling # One \div 2
    /\ \E b \in Bands : Post.phases[b] # Wrap(Rotate(Pre.phases))[b]

\* C24: in F1, after every pass of the inner loop the keys of the
\* transition map are exactly the visited states, so the returned
\* transitions equals unique_states, the `n_transitions == n_unique`
\* conjunct of the verdict is true and falsified is true exactly when
\* unique_states < n_oscillators**3 * 2**precision_bits, also when a
\* quantized state was followed by two different next-states
C24_KeysAreTheVisited ==
    InF1 =>
        /\ DOMAIN test.transitions = test.states_visited
        /\ test.pc = "done" =>
              LET result == test.result[1]
              IN /\ result.transitions = result.unique_states
                 /\ result.falsified <=>
                       result.unique_states
                           < TotalOscillators * TotalOscillators * TotalOscillators
                                 * Pow2(test.precision_bits)

\* the test has returned, the last pass having left a state that was a key
\* already for a next-state other than the one recorded for it
C24_ReturnedAfterClash ==
    /\ InF1
    /\ test.pc = "done"
    /\ test.state # None
    /\ test.transitions[test.state[1]] # test.next_state[1]
    /\ test.result[1].unique_states > 1
    /\ test.result[1].falsified

\* a magnitude of band b after one step with the given input energy
MagnitudeStep(m, b, input_energy) ==
    TruncDiv((IF input_energy > 0 /\ m < InjectBelow
                 THEN m + TruncDiv(input_energy, 10)
                 ELSE m) * BAND_DECAY[b],
             100)

RECURSIVE MagnitudeAfter(_, _, _, _, _)
\* a magnitude m >= 0 of band b after the input energies of calls[lo .. hi]:
\* the first half of the calls, then the second half from what the first
\* half left
MagnitudeAfter(m, b, calls, lo, hi) ==
    IF lo > hi THEN m
    ELSE IF lo = hi THEN MagnitudeStep(m, b, calls[lo].input_energy)
    ELSE LET mid == (lo + hi) \div 2
             half == MagnitudeAfter(m, b, calls, lo, mid)
         IN IF half < 0 THEN half
            ELSE MagnitudeAfter(half, b, calls, mid + 1, hi)

\* C25: in every reachable state every magnitude of band b is the value
\* that 0.9 takes under the band's decay factor and the input energies of
\* the calls made since construction or reset, whatever the neuron, the
\* seed, the use_feedback values and the fixed_coupling values
C25_MagnitudesFromEnergies ==
    \A e \in DOMAIN oscs : \A b \in Bands :
        LET after == MagnitudeAfter((9 * One) \div 10, b, hist[e].calls,
                                    1, Len(hist[e].calls))
        IN after >= 0 /\ \A n \in Neurons : oscs[e].magnitudes[b][n] = after

\* an engine seeded otherwise than by default whose second call injected
\* energy into the Gamma band with the feedback off and the coupling forced
\* out of range
C25_InjectedUnderForcedCoupling ==
    /\ driver = "calls"
    /\ hist[1].seed # DefaultSeed
    /\ Len(hist[1].calls) = 2
    /\ hist[1].calls[2] = Call(4 * One, FALSE, Some(COUPLING_MAX + One))
    /\ Pre.magnitudes[NumBands - 1][0] < InjectBelow
    /\ Post.magnitudes[NumBands - 1][0]
          > TruncDiv(Pre.magnitudes[NumBands - 1][0] * BAND_DECAY[NumBands - 1], 100)

\* max(0.9, 0.5 + 0.1 * E)
MagnitudeBound(E) ==
    LET lifted == InjectBelow + TruncDiv(E, 10)
        initial == (9 * One) \div 10
    IN IF lifted > initial THEN lifted ELSE initial

\* C26: in every state reached by evolve_step calls whose input_energy
\* never exceeds E, every magnitude is at least 0 and at most
\* max(0.9, 0.5 + 0.1 * E)
C26_MagnitudesBounded ==
    \A E \in SurgeEnergies :
        (\A i \in DOMAIN hist[1].calls : hist[1].calls[i].input_energy <= E) =>
            \A b \in Bands : \A n \in Neurons :
                /\ oscs[1].magnitudes[b][n] >= 0
                /\ oscs[1].magnitudes[b][n] <= MagnitudeBound(E)

\* a step that injected 0.1 * 10.0 into a magnitude below 0.5 and left it
\* above the initial 0.9
C26_LiftedAboveInitial ==
    /\ driver = "surge"
    /\ Stepped
    /\ LastCall.input_energy = 10 * One
    /\ \E b \in Bands :
          /\ Pre.magnitudes[b][0] < InjectBelow
          /\ Post.magnitudes[b][0] > (9 * One) \div 10

\* every magnitude of engine 1 is at most 0.01
Faded == NoneValid(oscs[1].magnitudes)

\* min(coupling * 1.005, 2.0)
Grown(coupling) ==
    IF TruncDiv(coupling * 1005, 1000) > 2 * One
       THEN 2 * One
       ELSE TruncDiv(coupling * 1005, 1000)

\* once every magnitude is at most 0.01 the coherence is 0
C27_FadedIsIncoherent == Faded => get_coherence(oscs[1]) = 0

\* a step taken once every magnitude is at most 0.01 leaves them so, and
\* leaves the coupling multiplied by 1.005 or, from 2.0 or just below it,
\* at 2.0
C27_FadedStep ==
    Faded =>
        /\ Faded'
        /\ oscs'[1].coupling = Grown(oscs[1].coupling)
        /\ oscs[1].coupling = 2 * One => oscs'[1].coupling = 2 * One

\* C27: an engine stepped forever with input_energy = 0 and use_feedback =
\* true, fixed_coupling unset, eventually has every magnitude at most 0.01;
\* from then on its coherence is 0 at every step and every step multiplies
\* its coupling by 1.005 until it reaches 2.0, where it stays forever
C27_FadesThenCouples ==
    /\ <>Faded
    /\ []C27_FadedIsIncoherent
    /\ [][C27_FadedStep]_vars
    /\ <>[](Faded /\ oscs[1].coupling = 2 * One)

\* the engine seeded by default took a step that found every magnitude at
\* most 0.01 and the coupling at 2.0 and left it there
C27_HeldAtMax ==
    /\ driver = "forever"
    /\ hist[1].seed = DefaultSeed
    /\ Stepped
    /\ NoneValid(Pre.magnitudes)
    /\ Pre.coupling = 2 * One
    /\ Post.coupling = 2 * One

====
